---- MODULE Spec2Model ----
(***************************************************************************)
(* Model of src/run_benchmarks_v3.py: the configuration generator, the     *)
(* retrying run executor, the failure logger and the sweep driver.         *)
(*                                                                         *)
(* Python values are tagged records, one field name per Python type, so    *)
(* that values of different types compare unequal:                         *)
(*   [none |-> TRUE]  None        [int |-> n]   an int                     *)
(*   [str |-> s]      a str       [list |-> q]  a list                     *)
(*   [dict |-> d]     a dict                                               *)
(* A dict is a sequence of <<key, value>> pairs in insertion order.        *)
(* JSON text is modelled by the JSON value it denotes, tagged likewise:    *)
(*   [null |-> TRUE], [num |-> n], [string |-> s], [arr |-> q], [obj |-> d]*)
(***************************************************************************)
EXTENDS Integers, Sequences, FiniteSets, TLC

\* pc: "start" main not yet run, "call" main about to call run_benchmark,
\* "attempt" the command of an attempt about to run, "retry_sleep" and
\* "run_sleep" inside time.sleep, "exhausted" retry loop over, "returned"
\* run_benchmark has returned to main, "done" sweep finished, "exit"
\* sys.exit at startup, "crashed" an exception left main.
VARIABLES
    pc,                 \* position of the driver / executor
    exp_setup,          \* experiment_setup section of the YAML document
    base_config,        \* base_config section
    sweep_params,       \* parameter_sweep section
    benchmark_configs,  \* main: generated list of configurations
    i,                  \* main: 1-based index of the current configuration
    attempt,            \* run_benchmark: loop variable of the retry loop
    results,            \* run_benchmark: result parsed by the last attempt
    ret,                \* main: value returned by run_benchmark
    cwd,                \* vllm-*.json files in the working directory
    archive,            \* files in raw_results_dir
    failed_runs_file,   \* the failure log file
    csv,                \* lines of the CSV file
    experiment_dir,     \* the experiment directory exists
    write_header,       \* main: header still to be written
    writer,             \* main: the DictWriter was created
    raised,             \* exception that escaped, "" if none
    run_trace,          \* observation: events of the current run_benchmark call
    popped_file,        \* observation: name of the file the last attempt popped
    invoked             \* observation: indices run_benchmark was called for

vars == <<pc, exp_setup, base_config, sweep_params, benchmark_configs, i,
          attempt, results, ret, cwd, archive, failed_runs_file, csv,
          experiment_dir, write_header, writer, raised, run_trace,
          popped_file, invoked>>

inputVars == <<exp_setup, base_config, sweep_params>>
fileVars == <<cwd, archive, failed_runs_file, csv>>

----------------------------------------------------------------------------
(* Bounds *)

\* explicit max_retries values in experiment_setup range over 0..MaxRetriesBound
MaxRetriesBound == 1

----------------------------------------------------------------------------
(* Python values and dicts *)

PyNone == [none |-> TRUE]
PyInt(n) == [int |-> n]
PyStr(s) == [str |-> s]
PyList(q) == [list |-> q]
PyDict(d) == [dict |-> d]

IsNone(v) == DOMAIN v = {"none"}
IsInt(v) == DOMAIN v = {"int"}
IsStr(v) == DOMAIN v = {"str"}
IsList(v) == DOMAIN v = {"list"}
IsDict(v) == DOMAIN v = {"dict"}

HasKey(d, k) == \E j \in 1..Len(d) : d[j][1] = k

\* dict.get(k, default)
DictGet(d, k, default) ==
    IF HasKey(d, k)
    THEN d[CHOOSE j \in 1..Len(d) : d[j][1] = k][2]
    ELSE default

\* d[k] = v : an existing key keeps its position, a new key goes last
DictSet(d, k, v) ==
    IF HasKey(d, k)
    THEN [j \in 1..Len(d) |-> IF d[j][1] = k THEN <<k, v>> ELSE d[j]]
    ELSE Append(d, <<k, v>>)

RECURSIVE DictUpdate(_, _)
\* d.update(e)
DictUpdate(d, e) ==
    IF e = <<>> THEN d
    ELSE DictUpdate(DictSet(d, e[1][1], e[1][2]), Tail(e))

\* the update made on the dict itself, without a copy
UpdateInPlace(d, e) ==
    [copy |-> DictUpdate(d, e), original |-> DictUpdate(d, e)]

\* x = d.copy(); x.update(e): the copy x and the dict d as they are
\* afterwards
CopyThenUpdate(d, e) ==
    [copy |-> DictUpdate(d, e), original |-> d]

\* truth value of an Optional[dict] held as <<>> (None) or <<d>>
Truthy(opt) == opt # <<>> /\ Len(opt[1]) > 0

----------------------------------------------------------------------------
(* JSON *)

RECURSIVE JsonDump(_)
\* json.dump: the JSON value written for a Python value
JsonDump(v) ==
    IF IsNone(v) THEN [null |-> TRUE]
    ELSE IF IsInt(v) THEN [num |-> v.int]
    ELSE IF IsStr(v) THEN [string |-> v.str]
    ELSE IF IsList(v) THEN [arr |-> [j \in 1..Len(v.list) |-> JsonDump(v.list[j])]]
    ELSE [obj |-> [j \in 1..Len(v.dict) |->
                      <<v.dict[j][1], JsonDump(v.dict[j][2])>>]]

RECURSIVE JsonLoad(_)
\* json.load: the Python value read from a JSON value
JsonLoad(x) ==
    IF DOMAIN x = {"null"} THEN PyNone
    ELSE IF DOMAIN x = {"num"} THEN PyInt(x.num)
    ELSE IF DOMAIN x = {"string"} THEN PyStr(x.string)
    ELSE IF DOMAIN x = {"arr"} THEN PyList([j \in 1..Len(x.arr) |-> JsonLoad(x.arr[j])])
    ELSE PyDict([j \in 1..Len(x.obj) |-> <<x.obj[j][1], JsonLoad(x.obj[j][2])>>])

----------------------------------------------------------------------------
(* generate_benchmark_configs *)

\* the fixed cap on output_len
MaxOutputLen == 1024
\* the floor of num_prompts
MinNumPrompts == 512

\* the quotient truncated instead of rounded
PyRoundDivTruncating(a, b) == a \div b

\* int(round(a / b)) for integers a >= 0, b > 0: round half to even
PyRoundDiv(a, b) ==
    LET q == a \div b
        r == a % b
    IN  IF 2 * r < b THEN q
        ELSE IF 2 * r > b THEN q + 1
        ELSE IF q % 2 = 0 THEN q ELSE q + 1

PyMax(a, b) == IF a >= b THEN a ELSE b

\* the candidate passes the output-length filter of lines 25-27
OutputLenKept(input_len, ratio) ==
    ~ (PyRoundDiv(input_len.int, ratio.int) > MaxOutputLen)

\* the candidate passes the pairing filter of lines 33-36
PairingKept(req_rate, max_curr) ==
    /\ ~ (req_rate = PyStr("inf") /\ IsNone(max_curr))
    /\ ~ (req_rate # PyStr("inf") /\ ~ IsNone(max_curr))

\* the two multipliers exchanged
CalculatedNumPromptsBaseSwapped(req_rate, max_curr) ==
    IF ~ IsNone(max_curr) THEN 60 * max_curr.int
    ELSE IF IsInt(req_rate) THEN req_rate.int * 10
    ELSE MinNumPrompts

\* calculated_num_prompts_base, lines 49-64: 10 x concurrency for a
\* throughput run, rate x 60 for a latency run, 512 when float(req_rate)
\* raises ValueError
CalculatedNumPromptsBase(req_rate, max_curr) ==
    IF ~ IsNone(max_curr) THEN 10 * max_curr.int
    ELSE IF IsInt(req_rate) THEN req_rate.int * 60
    ELSE MinNumPrompts

\* num_prompts derived without the floor of line 66
NumPromptsForNoFloor(config, req_rate, max_curr) ==
    LET explicit_num_prompts == DictGet(config, "num_prompts", PyNone)
    IN  IF IsInt(explicit_num_prompts)
        THEN explicit_num_prompts.int
        ELSE CalculatedNumPromptsBase(req_rate, max_curr)

\* num_prompts of one configuration, lines 40-66
NumPromptsFor(config, req_rate, max_curr) ==
    LET explicit_num_prompts == DictGet(config, "num_prompts", PyNone)
    IN  IF IsInt(explicit_num_prompts)
        THEN explicit_num_prompts.int
        ELSE LET calculated_num_prompts_base ==
                     CalculatedNumPromptsBase(req_rate, max_curr)
             IN  PyMax(MinNumPrompts, calculated_num_prompts_base)

\* the configuration built for one surviving candidate, lines 38-75
MakeConfig(base, req_rate, input_len, ratio, max_curr) ==
    CopyThenUpdate(base,
        << <<"req_rate", req_rate>>,
           <<"input_len", input_len>>,
           <<"output_len", PyInt(PyRoundDiv(input_len.int, ratio.int))>>,
           <<"num_prompts", PyInt(NumPromptsFor(base, req_rate, max_curr))>>,
           <<"max_curr", max_curr>> >>).copy

\* the keys written by the update of lines 68-74
SweptKeys == {"req_rate", "input_len", "output_len", "num_prompts", "max_curr"}

IsSweptPair(kv) == kv[1] \in SweptKeys

\* base_config as generate_benchmark_configs leaves it: lines 38 and 68-74
\* ran once for every configuration appended, each time on the same five
\* keys, so the last run decides
BaseAfterGenerate(base, configs) ==
    IF Len(configs) = 0 THEN base
    ELSE CopyThenUpdate(base, SelectSeq(configs[Len(configs)],
                                        IsSweptPair)).original

\* the loops nested with the concurrency values outermost
NestedCandidatesConcurrencyOutermost(R, L, Q, C) ==
    [k \in 1..(R * L * Q * C) |->
        << ((k - 1) % R) + 1,
           (((k - 1) \div R) % L) + 1,
           (((k - 1) \div (R * L)) % Q) + 1,
           ((k - 1) \div (R * L * Q)) + 1 >>]

\* lines 22-29: the candidates of the four nested loops in iteration
\* order, as tuples of indices into req_rates, input_lens,
\* output_len_ratios and max_concurrency_values
NestedCandidates(R, L, Q, C) ==
    [k \in 1..(R * L * Q * C) |->
        << ((k - 1) \div (C * Q * L)) + 1,
           (((k - 1) \div (C * Q)) % L) + 1,
           (((k - 1) \div C) % Q) + 1,
           ((k - 1) % C) + 1 >>]

\* the list returned by generate_benchmark_configs
generate_benchmark_configs(base, sweep) ==
    LET req_rates == DictGet(sweep, "req_rates", PyList(<<>>)).list
        input_lens == DictGet(sweep, "input_lens", PyList(<<>>)).list
        output_len_ratios ==
            DictGet(sweep, "input_to_output_len_ratios", PyList(<<>>)).list
        max_concurrency_values ==
            DictGet(sweep, "max_concurrency_values", PyList(<<>>)).list
        R == Len(req_rates)
        L == Len(input_lens)
        Q == Len(output_len_ratios)
        C == Len(max_concurrency_values)
        all == NestedCandidates(R, L, Q, C)
        Kept(t) == /\ OutputLenKept(input_lens[t[2]], output_len_ratios[t[3]])
                   /\ PairingKept(req_rates[t[1]], max_concurrency_values[t[4]])
        kept == SelectSeq(all, Kept)
    IN  [k \in 1..Len(kept) |->
            MakeConfig(base, req_rates[kept[k][1]], input_lens[kept[k][2]],
                       output_len_ratios[kept[k][3]],
                       max_concurrency_values[kept[k][4]])]

----------------------------------------------------------------------------
(* Inputs: the YAML document and the files found at start *)

\* default of exp_setup.get("max_retries", 3)
DefaultMaxRetries == 3

ExpSetupBase == << <<"ip", PyStr("localhost")>>, <<"port", PyInt(8000)>> >>

ExpSetups ==
    {ExpSetupBase} \cup
    {Append(ExpSetupBase, <<"max_retries", PyInt(k)>>) : k \in 0..MaxRetriesBound}

BaseConfigBase == << <<"model", PyStr("m")>>, <<"tokenizer", PyStr("t")>> >>

\* no explicit num_prompts, or a positive one below and above 200
BaseConfigs ==
    {BaseConfigBase} \cup
    {Append(BaseConfigBase, <<"num_prompts", PyInt(n)>>) : n \in {100, 1000}}

ReqRateLists ==
    { <<PyStr("inf")>>, <<PyStr("inf"), PyInt(5)>> }

ConcurrencyLists ==
    { <<PyNone>>, <<PyNone, PyInt(64)>> }

SweepParams ==
    { << <<"req_rates", PyList(rr)>>,
         <<"input_lens", PyList(<<PyInt(1024)>>)>>,
         <<"input_to_output_len_ratios", PyList(<<PyInt(4)>>)>>,
         <<"max_concurrency_values", PyList(cc)>> >>
      : rr \in ReqRateLists, cc \in ConcurrencyLists }

\* contents of a vllm-*.json file: text that is not JSON, a JSON value that
\* is not an object, or a JSON object
InvalidJson == [kind |-> "invalid"]
NonObjectJson == [kind |-> "json", value |-> [arr |-> <<>>]]
ResultObject(completed) ==
    [kind |-> "json",
     value |-> [obj |-> << <<"completed", [num |-> completed]>>,
                           <<"request_throughput", [num |-> 7]>> >>]]
ResultObjectOnlyCompleted(completed) ==
    [kind |-> "json",
     value |-> [obj |-> << <<"completed", [num |-> completed]>> >>]]
ResultObjectNoCompleted ==
    [kind |-> "json",
     value |-> [obj |-> << <<"request_throughput", [num |-> 7]>> >>]]

\* completed counts the external command may report for num_prompts = n:
\* all of them, and the two counts around the acceptance threshold
CompletedValues(n) == {n, n - (n \div 200), n - (n \div 200) + 1}

ResultContents(n) ==
    {InvalidJson, NonObjectJson, ResultObjectNoCompleted,
     ResultObjectOnlyCompleted(n)} \cup
    {ResultObject(c) : c \in CompletedValues(n)}

\* what one invocation of the external command does: how it exits and the
\* contents of the result files it leaves in the working directory
CommandOutcomes(n) ==
    {[exit |-> "launchfail", written |-> <<>>]} \cup
    {[exit |-> "nonzero", written |-> w] : w \in {<<>>, <<ResultObject(n)>>}} \cup
    {[exit |-> "ok", written |-> <<>>]} \cup
    {[exit |-> "ok", written |-> <<c>>] : c \in ResultContents(n)} \cup
    {[exit |-> "ok", written |-> <<ResultObject(n), ResultObject(0)>>]}

StaleFile == [name |-> <<0, 0, 1>>, content |-> ResultObject(1000)]

PriorEntry == [obj |-> << <<"num_prompts", [num |-> 7]>> >>]

LogFile(exists, readable, writable, data) ==
    [exists |-> exists, readable |-> readable, writable |-> writable,
     data |-> data]

\* states of the failure log at start: absent, empty, not JSON, a JSON
\* object, a JSON array, and an array that cannot be read or written
LogFileStates ==
    { LogFile(FALSE, TRUE, TRUE, [kind |-> "empty"]),
      LogFile(TRUE, TRUE, TRUE, [kind |-> "empty"]),
      LogFile(TRUE, TRUE, TRUE, [kind |-> "invalid"]),
      LogFile(TRUE, TRUE, TRUE, [kind |-> "json", value |-> [obj |-> <<>>]]),
      LogFile(TRUE, TRUE, TRUE, [kind |-> "json", value |-> [arr |-> <<PriorEntry>>]]),
      LogFile(TRUE, FALSE, TRUE, [kind |-> "json", value |-> [arr |-> <<PriorEntry>>]]),
      LogFile(TRUE, TRUE, FALSE, [kind |-> "json", value |-> [arr |-> <<PriorEntry>>]]) }

\* the header an earlier session wrote for a base configuration without
\* num_prompts and a result with completed and request_throughput
PriorFieldnames ==
    << "model", "tokenizer", "hardware", "notes", "pd_enabled",
       "prefill_node", "prefill_dp", "prefill_tp",
       "decode_node", "decode_dp", "decode_tp",
       "req_rate", "input_len", "output_len", "num_prompts", "max_curr",
       "completed", "request_throughput", "timestamp" >>

\* the header and a data row left in the CSV file by an earlier session
PriorLines ==
    << [kind |-> "prior", fields |-> PriorFieldnames],
       [kind |-> "prior", fields |-> <<>>] >>

\* the CSV file: the lines on disk and the lines still in the buffer of the
\* open file object
CsvStates ==
    { [exists |-> FALSE, lines |-> <<>>, buffer |-> <<>>],
      [exists |-> TRUE, lines |-> <<>>, buffer |-> <<>>],
      [exists |-> TRUE, lines |-> PriorLines, buffer |-> <<>>] }

\* the files found at start; a document that leaves max_retries to its
\* default of three attempts is run in a fresh experiment directory
FileStates(setup) ==
    IF HasKey(setup, "max_retries") \/ setup = <<>>
    THEN {{}, {StaleFile}} \X LogFileStates \X CsvStates
    ELSE {<<{}, LogFile(FALSE, TRUE, TRUE, [kind |-> "empty"]),
            [exists |-> FALSE, lines |-> <<>>, buffer |-> <<>>]>>}

Init ==
    /\ pc = "start"
    /\ exp_setup \in ExpSetups \cup {<<>>}
    /\ base_config \in BaseConfigs \cup {<<>>}
    /\ sweep_params \in SweepParams \cup {<<>>}
    /\ benchmark_configs = <<>>
    /\ i = 0
    /\ attempt = 0
    /\ results = <<>>
    /\ ret = <<>>
    /\ \E fs \in FileStates(exp_setup) :
          /\ cwd = fs[1]
          /\ failed_runs_file = fs[2]
          /\ csv = fs[3]
          /\ experiment_dir = (fs[2].exists \/ fs[3].exists)
    /\ archive = {}
    /\ write_header = FALSE
    /\ writer = <<>>
    /\ raised = ""
    /\ run_trace = <<>>
    /\ popped_file = <<>>
    /\ invoked = <<>>

----------------------------------------------------------------------------
(* log_failed_run *)

\* log_failed_run that starts from an empty list instead of the entries read
log_failed_run_overwrite(config, f) ==
    IF ~ f.writable
    THEN [file |-> f, raised |-> ""]
    ELSE [file |-> LogFile(TRUE, f.readable, TRUE,
                     [kind |-> "json",
                      value |-> JsonDump(PyList(<<PyDict(config)>>))]),
          raised |-> ""]

\* the failure log after log_failed_run(config, f) and the exception that
\* escapes the call ("" when it returns normally)
log_failed_run(config, f) ==
    LET unchanged(exc) == [file |-> f, raised |-> exc]
        \* lines 90-92: append, open for writing, dump
        write(failed_runs) ==
            IF ~ f.writable
            THEN unchanged("")                      \* IOError, caught
            ELSE [file |-> LogFile(TRUE, f.readable, TRUE,
                             [kind |-> "json",
                              value |-> JsonDump(PyList(Append(failed_runs,
                                                               PyDict(config))))]),
                  raised |-> ""]
    IN  IF f.exists /\ f.data.kind # "empty"
        THEN IF ~ f.readable
             THEN unchanged("")                     \* IOError, caught
             ELSE IF f.data.kind = "invalid"
             THEN unchanged("")                     \* JSONDecodeError, caught
             ELSE LET loaded == JsonLoad(f.data.value)
                  IN  IF ~ IsList(loaded)
                      THEN unchanged("AttributeError")  \* no .append: not caught
                      ELSE write(loaded.list)
        ELSE write(<<>>)

----------------------------------------------------------------------------
(* run_benchmark *)

max_retries == DictGet(exp_setup, "max_retries", PyInt(DefaultMaxRetries)).int

config == benchmark_configs[i]

NumPrompts(c) == DictGet(c, "num_prompts", PyInt(1)).int

\* the loop written as range(max_retries - 1)
MoreAttemptsOneLess(next, mr) == next < mr - 1

\* for attempt in range(max_retries): the loop yields the value next
MoreAttempts(next, mr) == next < mr

\* the cooldown test written as attempt < max_retries
NeedsCooldownAlways(att, mr) == att < mr

\* line 177: the attempt is not the last one
NeedsCooldown(att, mr) == att < mr - 1

\* the success condition written with <=
AcceptedInclusive(num_prompts, completed) ==
    (num_prompts - completed) <= (num_prompts \div 200)

AcceptedExact(num_prompts, completed) == completed = num_prompts

\* line 160: the success condition
Accepted(num_prompts, completed) ==
    (num_prompts - completed) < (num_prompts \div 200)

\* the loop header of line 106 after an iteration; once the range is
\* exhausted attempt holds max_retries
LoopNext ==
    /\ attempt' = attempt + 1
    /\ pc' = IF MoreAttempts(attempt + 1, max_retries) THEN "attempt"
             ELSE "exhausted"

\* lines 176-179 up to the sleep
AfterFailedAttempt ==
    IF NeedsCooldown(attempt, max_retries)
    THEN pc' = "retry_sleep" /\ attempt' = attempt
    ELSE LoopNext

\* the loop going on after an accepted attempt
AfterAcceptedGoOn == AfterFailedAttempt

\* line 167: return results
AfterAccepted == pc' = "returned" /\ attempt' = attempt

\* lines 229-230 and 103-106: main calls run_benchmark for configuration i
RunBenchmarkEnter ==
    /\ pc = "call"
    /\ invoked' = Append(invoked, i)
    /\ run_trace' = <<>>
    /\ popped_file' = <<>>
    /\ attempt' = 0
    /\ results' = <<>>
    /\ pc' = IF MoreAttempts(0, max_retries) THEN "attempt" ELSE "exhausted"
    /\ UNCHANGED <<inputVars, experiment_dir, fileVars, benchmark_configs, i,
                   ret, write_header, writer, raised>>

\* every file counted as new, whatever the snapshot holds
NewFilesAll(files_after, files_before) == files_after

\* line 143: the names found after the command that the snapshot lacks
NewFiles(files_after, files_before) == files_after \ files_before

\* lines 107-177: one attempt, from the snapshot to the cooldown test
Attempt ==
    /\ pc = "attempt"
    /\ \E out \in CommandOutcomes(NumPrompts(config)) :
        LET files_before == {f.name : f \in cwd}
            written == {[name |-> <<i, attempt, k>>, content |-> out.written[k]]
                          : k \in 1..Len(out.written)}
            dir == cwd \cup written
            files_after == {f.name : f \in dir}
            new_files == {f \in dir : f.name \in NewFiles(files_after, files_before)}
        IN  IF out.exit # "ok"
            THEN \* CalledProcessError / FileNotFoundError, caught at line 172
                 /\ cwd' = dir
                 /\ run_trace' = Append(run_trace, out.exit)
                 /\ popped_file' = <<>>
                 /\ AfterFailedAttempt
                 /\ UNCHANGED <<results, ret, archive, raised>>
            ELSE IF new_files = {}
            THEN \* lines 144-146: continue
                 /\ cwd' = dir
                 /\ run_trace' = Append(run_trace, "nofile")
                 /\ popped_file' = <<>>
                 /\ LoopNext
                 /\ UNCHANGED <<results, ret, archive, raised>>
            ELSE \E result_file \in new_files :      \* new_files.pop()
                 IF result_file.content.kind = "invalid"
                 THEN \* json.load raises JSONDecodeError: not caught
                      /\ cwd' = dir
                      /\ run_trace' = Append(run_trace, "raised")
                      /\ raised' = "JSONDecodeError"
                      /\ popped_file' = <<result_file.name>>
                      /\ pc' = "crashed"
                      /\ UNCHANGED <<results, ret, archive, attempt>>
                 ELSE LET loaded == JsonLoad(result_file.content.value)
                      IN  IF ~ IsDict(loaded)
                          THEN \* results.get raises AttributeError: not caught
                               /\ cwd' = dir
                               /\ run_trace' = Append(run_trace, "raised")
                               /\ raised' = "AttributeError"
                               /\ popped_file' = <<result_file.name>>
                               /\ pc' = "crashed"
                               /\ UNCHANGED <<results, ret, archive, attempt>>
                          ELSE LET completed ==
                                       DictGet(loaded.dict, "completed", PyInt(0)).int
                                   num_prompts == NumPrompts(config)
                               IN  /\ results' = <<loaded.dict>>
                                   /\ popped_file' = <<result_file.name>>
                                   /\ raised' = raised
                                   /\ IF Accepted(num_prompts, completed)
                                      THEN \* lines 161-167: archive and return
                                           /\ cwd' = dir \ {result_file}
                                           /\ archive' = archive \cup {result_file.name}
                                           /\ run_trace' = Append(run_trace, "accepted")
                                           /\ ret' = <<loaded.dict>>
                                           /\ AfterAccepted
                                      ELSE \* lines 169-170: delete, then cooldown test
                                           /\ cwd' = dir \ {result_file}
                                           /\ archive' = archive
                                           /\ run_trace' = Append(run_trace, "rejected")
                                           /\ ret' = ret
                                           /\ AfterFailedAttempt
    /\ UNCHANGED <<inputVars, experiment_dir, benchmark_configs, i,
                   failed_runs_file, csv, write_header, writer, invoked>>

\* lines 178-179: the cooldown sleep, then the loop header
RetrySleep ==
    /\ pc = "retry_sleep"
    /\ run_trace' = Append(run_trace, "sleep")
    /\ LoopNext
    /\ UNCHANGED <<inputVars, experiment_dir, fileVars, benchmark_configs, i,
                   results, ret, write_header, writer, raised, popped_file,
                   invoked>>

\* lines 181-184: all attempts failed; log the configuration, return None
RunBenchmarkExhausted ==
    /\ pc = "exhausted"
    /\ LET r == log_failed_run(config, failed_runs_file)
       IN  /\ failed_runs_file' = r.file
           /\ raised' = r.raised
           /\ run_trace' = Append(run_trace, "log")
           /\ IF r.raised = ""
              THEN pc' = "returned" /\ ret' = <<>>
              ELSE pc' = "crashed" /\ ret' = ret
    /\ UNCHANGED <<inputVars, experiment_dir, benchmark_configs, i, attempt,
                   results, cwd, archive, csv, write_header, writer,
                   popped_file, invoked>>

----------------------------------------------------------------------------
(* main *)

Keys(d) == [j \in 1..Len(d) |-> d[j][1]]

InSeq(x, q) == \E j \in 1..Len(q) : q[j] = x

\* lines 247-251
base_keys ==
    << "model", "tokenizer", "hardware", "notes", "pd_enabled",
       "prefill_node", "prefill_dp", "prefill_tp",
       "decode_node", "decode_dp", "decode_tp" >>

\* lines 253-256: the column order fixed at the first successful run
Fieldnames(cfg, res) ==
    LET NotBase(k) == ~ InSeq(k, base_keys)
        other_config_keys == SelectSeq(Keys(cfg), NotBase)
        result_keys == Keys(res)
    IN  base_keys \o other_config_keys \o result_keys \o <<"timestamp">>

\* lines 237-241: configuration, result and timestamp merged
CombinedData(cfg, res) ==
    DictSet(CopyThenUpdate(cfg, res).copy, "timestamp", PyStr("now"))

\* the row laid out in the order of its own keys
RowToWriteOwnOrder(fieldnames, combined_data) ==
    [j \in 1..Len(combined_data) |-> combined_data[j][2]]

\* line 263: the row laid out in the writer's column order
RowToWrite(fieldnames, combined_data) ==
    [j \in 1..Len(fieldnames) |-> DictGet(combined_data, fieldnames[j], PyNone)]

\* the text the csv writer emits for a value: None gives the empty string
CsvCell(v) ==
    IF IsNone(v) THEN ""
    ELSE IF IsInt(v) THEN ToString(v.int)
    ELSE v.str

\* lines 259 and 264: writeheader / writerow put lines into the file object
CsvWrite(f, ls) == [f EXCEPT !.buffer = @ \o ls]

\* a flush that writes nothing
CsvFlushNothing(f) == f

\* line 265: csvfile.flush()
CsvFlush(f) == [f EXCEPT !.lines = @ \o f.buffer, !.buffer = <<>>]

\* the header test written without looking at the file
NeedsHeaderAlways(f) == TRUE

\* line 224: the CSV file is absent or has size zero
NeedsHeader(f) == ~ f.exists \/ Len(f.lines) = 0

\* lines 190-226: load the document, generate the list, open the CSV file
\* line 202: all([exp_setup, base_config, sweep_params]); a section that is
\* absent, null or empty is the empty dict
SectionsPresentAny(setup, base, sweep) ==
    setup # <<>> \/ base # <<>> \/ sweep # <<>>

SectionsPresent(setup, base, sweep) ==
    setup # <<>> /\ base # <<>> /\ sweep # <<>>

MainSetup ==
    /\ pc = "start"
    /\ IF ~ SectionsPresent(exp_setup, base_config, sweep_params)
       THEN \* lines 202-204: sys.exit(1)
            /\ pc' = "exit"
            /\ UNCHANGED <<base_config, benchmark_configs, i, csv,
                           experiment_dir, write_header>>
       ELSE LET generated == generate_benchmark_configs(base_config, sweep_params)
            IN  /\ benchmark_configs' = generated
                /\ base_config' = BaseAfterGenerate(base_config, generated)
                /\ experiment_dir' = TRUE    \* line 213: os.makedirs
                /\ IF generated = <<>>
                   THEN \* lines 217-219: sys.exit(0)
                        /\ pc' = "exit"
                        /\ UNCHANGED <<i, csv, write_header>>
                   ELSE /\ write_header' = NeedsHeader(csv)
                        /\ csv' = [csv EXCEPT !.exists = TRUE]
                        /\ i' = 1
                        /\ pc' = "call"
    /\ UNCHANGED <<exp_setup, sweep_params, attempt, results, ret, cwd,
                   archive, failed_runs_file, writer, raised, run_trace,
                   popped_file, invoked>>

\* the for statement of line 229 moves to the next configuration
\* the loop left after its first iteration
NextConfigStop == i' = i /\ pc' = "done"

\* line 229: the next iteration of the loop over benchmark_configs
NextConfig ==
    IF i < Len(benchmark_configs)
    THEN i' = i + 1 /\ pc' = "call"
    ELSE i' = i /\ pc' = "done"

\* lines 232-270: skip a run without result, or write and flush its row
MainResult ==
    /\ pc = "returned"
    /\ IF ~ Truthy(ret)
       THEN \* lines 232-234: continue
            /\ NextConfig
            /\ UNCHANGED <<benchmark_configs, csv, write_header, writer>>
       ELSE LET fieldnames == IF writer = <<>> THEN Fieldnames(config, ret[1])
                              ELSE writer[1]
                header == IF writer = <<>> /\ write_header
                          THEN << [kind |-> "header", fields |-> fieldnames] >>
                          ELSE <<>>
                row_to_write == RowToWrite(fieldnames,
                                           CombinedData(config, ret[1]))
                row == [kind |-> "row",
                        values |-> row_to_write,
                        cells |-> [j \in 1..Len(row_to_write) |->
                                      CsvCell(row_to_write[j])]]
            IN  /\ writer' = <<fieldnames>>
                /\ benchmark_configs' =
                       [benchmark_configs EXCEPT
                           ![i] = CopyThenUpdate(config, ret[1]).original]
                /\ write_header' = IF writer = <<>> THEN FALSE ELSE write_header
                /\ csv' = CsvFlush(CsvWrite(csv, header \o <<row>>))
                /\ i' = i
                /\ pc' = IF i < Len(benchmark_configs) THEN "run_sleep"
                         ELSE "done"
    /\ UNCHANGED <<inputVars, experiment_dir, attempt, results, ret, cwd,
                   archive, failed_runs_file, raised, run_trace, popped_file,
                   invoked>>

\* lines 271-272: the cooldown sleep between runs, then the next configuration
RunSleep ==
    /\ pc = "run_sleep"
    /\ NextConfig
    /\ UNCHANGED <<inputVars, experiment_dir, fileVars, benchmark_configs,
                   attempt, results, ret, write_header, writer, raised,
                   run_trace, popped_file, invoked>>

Next ==
    \/ MainSetup
    \/ RunBenchmarkEnter
    \/ Attempt
    \/ RetrySleep
    \/ RunBenchmarkExhausted
    \/ MainResult
    \/ RunSleep

Spec == Init /\ [][Next]_vars

----------------------------------------------------------------------------
(* generate_benchmark_configs on its own, over wider sweep axes *)

GenBaseConfigs ==
    BaseConfigs \cup {Append(BaseConfigBase, <<"num_prompts", PyStr("many")>>)}

GenReqRateLists ==
    { <<PyStr("inf")>>, <<PyInt(5)>>, <<PyStr("inf"), PyInt(5)>>,
      <<PyInt(5), PyStr("inf")>>, <<PyInt(20), PyStr("inf"), PyStr("fast")>> }

GenInputLenLists ==
    { <<PyInt(1024)>>, <<PyInt(1024), PyInt(2048)>>, <<PyInt(10), PyInt(1024)>> }

GenRatioLists ==
    { <<PyInt(4)>>, <<PyInt(4), PyInt(3)>>, <<PyInt(1), PyInt(2), PyInt(3)>> }

GenConcurrencyLists ==
    { <<PyNone>>, <<PyInt(64)>>, <<PyNone, PyInt(64)>>,
      <<PyInt(64), PyNone, PyInt(32)>> }

GenSweepParams ==
    { << <<"req_rates", PyList(rr)>>,
         <<"input_lens", PyList(il)>>,
         <<"input_to_output_len_ratios", PyList(ra)>>,
         <<"max_concurrency_values", PyList(cc)>> >>
      : rr \in GenReqRateLists, il \in GenInputLenLists,
        ra \in GenRatioLists, cc \in GenConcurrencyLists }

InitGen ==
    /\ pc = "generate"
    /\ exp_setup = ExpSetupBase
    /\ base_config \in GenBaseConfigs
    /\ sweep_params \in GenSweepParams
    /\ benchmark_configs = <<>>
    /\ i = 0
    /\ attempt = 0
    /\ results = <<>>
    /\ ret = <<>>
    /\ cwd = {}
    /\ archive = {}
    /\ failed_runs_file = LogFile(FALSE, TRUE, TRUE, [kind |-> "empty"])
    /\ csv = [exists |-> FALSE, lines |-> <<>>, buffer |-> <<>>]
    /\ experiment_dir = TRUE
    /\ write_header = FALSE
    /\ writer = <<>>
    /\ raised = ""
    /\ run_trace = <<>>
    /\ popped_file = <<>>
    /\ invoked = <<>>

\* line 216: the call of generate_benchmark_configs
Generate ==
    /\ pc = "generate"
    /\ LET generated == generate_benchmark_configs(base_config, sweep_params)
       IN  /\ benchmark_configs' = generated
           /\ base_config' = BaseAfterGenerate(base_config, generated)
    /\ pc' = "generated"
    /\ UNCHANGED <<exp_setup, sweep_params, experiment_dir, fileVars, i,
                   attempt, results, ret, write_header, writer, raised,
                   run_trace, popped_file, invoked>>

NextGen == Generate

SpecGen == InitGen /\ [][NextGen]_vars

----------------------------------------------------------------------------
(* the column list alone, over result files with wider key sets *)

\* key lists of result files: keys of their own, a key that is also a
\* configuration key, the key "timestamp"
ColResultKeyLists ==
    { <<"completed">>,
      <<"completed", "request_throughput">>,
      <<"completed", "num_prompts">>,
      <<"model", "completed">>,
      <<"completed", "timestamp">> }

ColResults ==
    { [j \in 1..Len(ks) |-> <<ks[j], PyInt(1)>>] : ks \in ColResultKeyLists }

\* main holds the result of its first successful run
InitCols ==
    /\ pc = "first_row"
    /\ exp_setup = ExpSetupBase
    /\ base_config \in GenBaseConfigs
    /\ sweep_params \in SweepParams
    /\ benchmark_configs = generate_benchmark_configs(base_config, sweep_params)
    /\ i \in 1..Len(benchmark_configs)
    /\ attempt = 0
    /\ results = <<>>
    /\ ret \in {<<res>> : res \in ColResults}
    /\ cwd = {}
    /\ archive = {}
    /\ failed_runs_file = LogFile(FALSE, TRUE, TRUE, [kind |-> "empty"])
    /\ csv = [exists |-> TRUE, lines |-> <<>>, buffer |-> <<>>]
    /\ experiment_dir = TRUE
    /\ write_header = TRUE
    /\ writer = <<>>
    /\ raised = ""
    /\ run_trace = <<>>
    /\ popped_file = <<>>
    /\ invoked = <<>>

\* lines 244-257: the writer is created with the column list
CreateWriter ==
    /\ pc = "first_row"
    /\ writer = <<>>
    /\ writer' = <<Fieldnames(config, ret[1])>>
    /\ pc' = "writer_created"
    /\ UNCHANGED <<inputVars, fileVars, experiment_dir, benchmark_configs, i,
                   attempt, results, ret, write_header, raised, run_trace,
                   popped_file, invoked>>

NextCols == CreateWriter

SpecCols == InitCols /\ [][NextCols]_vars

----------------------------------------------------------------------------
(* Observations used by the properties *)

LastEvent == IF run_trace = <<>> THEN "" ELSE run_trace[Len(run_trace)]

IsExecutorEvent(e) == e # "log"
IsAttemptEvent(e) == e \notin {"sleep", "log"}

\* the attempts and sleeps of the current run_benchmark call, in order
ExecutorTrace == SelectSeq(run_trace, IsExecutorEvent)

\* the outcomes of the attempts of the current call, in order
AttemptEvents == SelectSeq(run_trace, IsAttemptEvent)

\* the retry loop of the current call has ended without a result
LoopOver == pc = "exhausted" \/ LastEvent = "log"

\* mr rejected attempts with one sleep between each two of them
RejectedWithSleeps(mr) ==
    [k \in 1..(IF mr = 0 THEN 0 ELSE 2 * mr - 1) |->
        IF k % 2 = 1 THEN "rejected" ELSE "sleep"]

----------------------------------------------------------------------------
(* C1 - C10 *)

\* C1: when every attempt of a run produced a result file that failed the
\* threshold check, the executor made exactly max_retries attempts with
\* exactly one sleep between each two consecutive attempts and no sleep
\* after the last one.
C1_RetryBound ==
    (LoopOver /\ \A k \in 1..Len(ExecutorTrace) :
                    ExecutorTrace[k] \in {"rejected", "sleep"})
        => ExecutorTrace = RejectedWithSleeps(max_retries)

C1_Witness ==
    /\ pc = "exhausted"
    /\ max_retries = 3
    /\ ExecutorTrace = <<"rejected", "sleep", "rejected", "sleep", "rejected">>

\* C2: an attempt that parsed a result file is accepted if and only if
\* (num_prompts - completed) is strictly less than num_prompts / 200, that
\* is, the failure rate is under 0.5%.
C2_AcceptedIffUnderHalfPercent ==
    (LastEvent \in {"accepted", "rejected"})
        => LET n == NumPrompts(config)
               completed == DictGet(results[1], "completed", PyInt(0)).int
           IN  (LastEvent = "accepted") <=> ((n - completed) * 200 < n)

\* C3: no error escapes run_benchmark, whatever the command does and
\* whatever the result file holds.
C3_NothingRaisesPastExecutor == raised = ""

\* C4: when the sweep has ended, run_benchmark has been called exactly once
\* for each generated configuration, in list order.
C4_EveryConfigInvokedOnce ==
    (pc \in {"done", "crashed"})
        => invoked = [k \in 1..Len(benchmark_configs) |-> k]

\* C5: a further attempt for the same configuration starts only out of the
\* cooldown sleep, whichever way the earlier attempt failed, and no sleep
\* follows the final attempt.
C5_CooldownBetweenAttempts ==
    [][ /\ (pc' = "attempt" /\ attempt' = attempt + 1) => pc = "retry_sleep"
        /\ pc' = "exhausted" => pc # "retry_sleep" ]_vars

\* C6: the next run starts only out of the cooldown sleep between runs,
\* whether the earlier run succeeded or exhausted its retries, and no sleep
\* follows the final run.
C6_CooldownBetweenRuns ==
    [][ /\ (pc' = "call" /\ i >= 1 /\ i' = i + 1) => pc = "run_sleep"
        /\ pc' = "done" => pc # "run_sleep" ]_vars

\* the column of a field in the writer's column order
Col(field) == CHOOSE j \in 1..Len(writer[1]) : writer[1][j] = field

\* C7: every row written to the CSV file in this session carries a
\* completed count and a prompt count with a failure rate under 0.5%.
C7_RowsOnlyForAcceptedResults ==
    \A k \in 1..Len(csv.lines) :
        csv.lines[k].kind = "row"
            => /\ writer # <<>>
               /\ InSeq("completed", writer[1])
               /\ InSeq("num_prompts", writer[1])
               /\ LET v == csv.lines[k].values
                      n == v[Col("num_prompts")]
                      c == v[Col("completed")]
                  IN  IsInt(n) /\ IsInt(c) /\ (n.int - c.int) * 200 < n.int

C7_Witness ==
    \E k \in 1..Len(csv.lines) :
        /\ csv.lines[k].kind = "row"
        /\ csv.lines[k].values[Col("completed")].int
              < csv.lines[k].values[Col("num_prompts")].int

\* C8: log_failed_run is called for a configuration only after exactly
\* max_retries attempts, none of which was accepted.
C8_LoggedOnlyAfterMaxRetries ==
    LoopOver => /\ Len(AttemptEvents) = max_retries
                /\ \A k \in 1..Len(AttemptEvents) : AttemptEvents[k] # "accepted"

C8_Witness ==
    /\ LastEvent = "log"
    /\ max_retries = 3
    /\ Len(AttemptEvents) = 3

\* the entries of the failure log, none if it does not hold a JSON array
LogEntries(f) ==
    IF f.exists /\ f.data.kind = "json" /\ DOMAIN f.data.value = {"arr"}
    THEN f.data.value.arr
    ELSE <<>>

\* the log can be extended: absent, empty or a readable JSON array, and
\* writable
LogUsable(f) ==
    /\ f.writable
    /\ \/ ~ f.exists
       \/ f.data.kind = "empty"
       \/ f.readable /\ f.data.kind = "json" /\ DOMAIN f.data.value = {"arr"}

\* the log holds the array of the entries of f followed by cfg
LogExtended(f, cfg, g) ==
    /\ g.exists
    /\ g.data.kind = "json"
    /\ DOMAIN g.data.value = {"arr"}
    /\ Len(g.data.value.arr) = Len(LogEntries(f)) + 1
    /\ SubSeq(g.data.value.arr, 1, Len(LogEntries(f))) = LogEntries(f)
    /\ JsonLoad(g.data.value.arr[Len(g.data.value.arr)]) = PyDict(cfg)

\* C9 as stated: whenever run_benchmark returns no result, the failure log
\* holds its previous entries followed by the configuration.
C9_Original ==
    [][ (pc = "exhausted" /\ pc' = "returned")
           => LogExtended(failed_runs_file, config, failed_runs_file') ]_vars

\* C9 amended: when the failure log is absent, empty or a readable JSON
\* array and can be written, the exhausted run returns no result and leaves
\* the log holding its previous entries, in order, followed by the
\* configuration; in every other case, and in every other step of the
\* sweep, the log file is left as it was.
C9_AppendOnly ==
    [][ IF pc = "exhausted" /\ LogUsable(failed_runs_file)
        THEN /\ pc' = "returned"
             /\ LogExtended(failed_runs_file, config, failed_runs_file')
        ELSE failed_runs_file' = failed_runs_file ]_vars

C9_Witness ==
    /\ LastEvent = "log"
    /\ pc = "returned"
    /\ LogEntries(failed_runs_file)
          = <<PriorEntry, JsonDump(PyDict(config))>>

\* C10: log_failed_run returns normally for every state of the failure log.
C10_LoggerNeverRaises ==
    [][ pc = "exhausted" => pc' = "returned" ]_vars

----------------------------------------------------------------------------
(* C11 - C20 *)

IsSessionLine(l) == l.kind # "prior"

\* the lines this session has added to the CSV file
SessionLines == SelectSeq(csv.lines, IsSessionLine)

\* the CSV file held lines when the sweep started
HadContent == \E k \in 1..Len(csv.lines) : csv.lines[k].kind = "prior"

\* C11: the session writes a header exactly when the CSV file was absent or
\* empty at start and a run has succeeded: the header is then the first line
\* of the session, it is followed at once by the first data row, and every
\* other line of the session is a data row; a file that held lines at start
\* gets data rows only.
C11_HeaderWrittenOnce ==
    IF HadContent
    THEN \A k \in 1..Len(SessionLines) : SessionLines[k].kind = "row"
    ELSE \/ SessionLines = <<>>
         \/ /\ Len(SessionLines) >= 2
            /\ SessionLines[1].kind = "header"
            /\ \A k \in 2..Len(SessionLines) : SessionLines[k].kind = "row"

C11_Witness ==
    /\ ~ HadContent
    /\ Len(SessionLines) = 3
    /\ pc = "done"

\* C12: when the CSV file held lines at start, the rows of the session are
\* laid out in the column order of the header already in the file.
C12_PriorColumnOrderReused ==
    (HadContent /\ writer # <<>>) => writer[1] = csv.lines[1].fields

IsRow(l) == l.kind = "row"

\* the data rows of the session in the CSV file
SessionRows == SelectSeq(csv.lines, IsRow)

\* C13: the column order is fixed when the writer is created, and every row
\* the session writes has exactly these columns in this order, a column
\* missing from the row's merged data being written as the empty string.
C13_ColumnOrderFixed ==
    [][ /\ writer # <<>> => writer' = writer
        /\ csv'.lines # csv.lines =>
             LET row == csv'.lines[Len(csv'.lines)]
                 f == writer'[1]
                 data == CombinedData(config, ret[1])
             IN  /\ row.kind = "row"
                 /\ Len(row.cells) = Len(f)
                 /\ \A j \in 1..Len(f) :
                       row.cells[j] = IF HasKey(data, f[j])
                                      THEN CsvCell(DictGet(data, f[j], PyNone))
                                      ELSE "" ]_vars

C13_Witness ==
    /\ Len(SessionRows) = 2
    /\ InSeq("request_throughput", writer[1])
    /\ SessionRows[1].cells[Col("request_throughput")] # ""
    /\ SessionRows[2].cells[Col("request_throughput")] = ""

\* the runs recorded so far: each accepted attempt archived one result file,
\* and the row of a result just returned is still to be written
RecordedRuns ==
    IF pc = "returned" /\ Truthy(ret)
    THEN Cardinality(archive) - 1
    ELSE Cardinality(archive)

\* C14: wherever the sweep stands, nothing waits in the buffer of the CSV
\* file: the file on disk holds one row for every run recorded so far, and
\* the header before them if one was due.
C14_RowsFlushed ==
    /\ csv.buffer = <<>>
    /\ Len(SessionRows) = RecordedRuns
    /\ (~ HadContent /\ RecordedRuns > 0) => csv.lines[1].kind = "header"

C14_Witness ==
    /\ pc \in {"attempt", "run_sleep"}
    /\ Len(SessionRows) = 1
    /\ RecordedRuns = 1

\* an axis of the parameter sweep
Axis(name) == DictGet(sweep_params, name, PyList(<<>>)).list

Field(cfg, k) == DictGet(cfg, k, PyNone)

Abs(x) == IF x >= 0 THEN x ELSE 0 - x

\* o is the integer nearest to a / b, the even one of the two when a / b
\* lies halfway between them
IsNearest(o, a, b) ==
    /\ 2 * Abs(o * b - a) <= b
    /\ 2 * Abs(o * b - a) = b => o % 2 = 0

\* C15: every generated configuration has an output length that is
\* input length / ratio rounded to the nearest integer for a ratio of the
\* sweep, and no generated configuration has an output length above 1024.
C15_OutputLength ==
    pc = "generated" =>
        \A k \in 1..Len(benchmark_configs) :
            LET a == Field(benchmark_configs[k], "input_len").int
                o == Field(benchmark_configs[k], "output_len").int
                ratios == Axis("input_to_output_len_ratios")
            IN  /\ o <= 1024
                /\ \E j \in 1..Len(ratios) :
                       IsNearest(o, a, ratios[j].int)

C15_Witness ==
    /\ pc = "generated"
    /\ InSeq(PyInt(2048), Axis("input_lens"))
    /\ InSeq(PyInt(1), Axis("input_to_output_len_ratios"))
    /\ \E k \in 1..Len(benchmark_configs) :
          /\ Field(benchmark_configs[k], "input_len") = PyInt(1024)
          /\ Field(benchmark_configs[k], "output_len") = PyInt(341)
    /\ \E k \in 1..Len(benchmark_configs) :
          /\ Field(benchmark_configs[k], "input_len") = PyInt(2048)
          /\ Field(benchmark_configs[k], "output_len") = PyInt(683)

\* C16: every generated configuration has either the request rate "inf"
\* with a defined concurrency, or a finite numeric request rate with an
\* undefined concurrency, and not both.
C16_PairingExactlyOne ==
    pc = "generated" =>
        \A k \in 1..Len(benchmark_configs) :
            LET rate == Field(benchmark_configs[k], "req_rate")
                curr == Field(benchmark_configs[k], "max_curr")
                throughput == rate = PyStr("inf") /\ ~ IsNone(curr)
                latency == IsInt(rate) /\ IsNone(curr)
            IN  (throughput \/ latency) /\ ~ (throughput /\ latency)

\* C17 as stated: every generated configuration has a prompt count of at
\* least 512, and the explicit value of the base configuration when that
\* is numeric.
C17_Original ==
    pc = "generated" =>
        \A k \in 1..Len(benchmark_configs) :
            LET n == Field(benchmark_configs[k], "num_prompts").int
                explicit == Field(base_config, "num_prompts")
            IN  /\ n >= 512
                /\ IsInt(explicit) => n = explicit.int

\* C17 amended: a generated configuration has the explicit prompt count of
\* the base configuration when that is numeric, whatever its size, and a
\* prompt count of at least 512 otherwise.
C17_PromptCount ==
    pc = "generated" =>
        \A k \in 1..Len(benchmark_configs) :
            LET n == Field(benchmark_configs[k], "num_prompts").int
                explicit == Field(base_config, "num_prompts")
            IN  IF IsInt(explicit) THEN n = explicit.int ELSE n >= 512

C17_Witness ==
    /\ pc = "generated"
    /\ Field(base_config, "num_prompts") = PyInt(100)
    /\ Len(benchmark_configs) >= 2
    /\ \A k \in 1..Len(benchmark_configs) :
          Field(benchmark_configs[k], "num_prompts") = PyInt(100)

\* the position of a value in an axis of distinct values
IndexIn(q, v) == CHOOSE j \in 1..Len(q) : q[j] = v

\* the axis indices (rate, input length, ratio, concurrency) a generated
\* configuration comes from
KeyOf(cfg) ==
    LET a == Field(cfg, "input_len").int
        o == Field(cfg, "output_len").int
        ratios == Axis("input_to_output_len_ratios")
    IN  << IndexIn(Axis("req_rates"), Field(cfg, "req_rate")),
           IndexIn(Axis("input_lens"), Field(cfg, "input_len")),
           CHOOSE j \in 1..Len(ratios) : PyRoundDiv(a, ratios[j].int) = o,
           IndexIn(Axis("max_concurrency_values"), Field(cfg, "max_curr")) >>

\* lexicographic order on index tuples
LexLess(s, t) ==
    \E j \in 1..4 : s[j] < t[j] /\ \A h \in 1..(j - 1) : s[h] = t[h]

\* the index tuples that pass both filters
KeptIndexTuples ==
    { t \in (1..Len(Axis("req_rates"))) \X (1..Len(Axis("input_lens")))
            \X (1..Len(Axis("input_to_output_len_ratios")))
            \X (1..Len(Axis("max_concurrency_values"))) :
        /\ OutputLenKept(Axis("input_lens")[t[2]],
                         Axis("input_to_output_len_ratios")[t[3]])
        /\ PairingKept(Axis("req_rates")[t[1]],
                       Axis("max_concurrency_values")[t[4]]) }

\* C18: the generated list holds one configuration for every candidate that
\* passes the filters, and a configuration whose index tuple (rate, input
\* length, ratio, concurrency) is lexicographically smaller comes first.
C18_NestedOrder ==
    pc = "generated" =>
        /\ Len(benchmark_configs) = Cardinality(KeptIndexTuples)
        /\ \A p, q \in 1..Len(benchmark_configs) :
              p < q => LexLess(KeyOf(benchmark_configs[p]),
                               KeyOf(benchmark_configs[q]))

C18_Witness ==
    /\ pc = "generated"
    /\ Len(benchmark_configs) >= 6
    /\ Len(Axis("req_rates")) >= 2
    /\ Len(Axis("input_lens")) >= 2
    /\ Len(Axis("input_to_output_len_ratios")) >= 2
    /\ Len(Axis("max_concurrency_values")) >= 2
    /\ Len(benchmark_configs) < Len(Axis("req_rates")) * Len(Axis("input_lens"))
          * Len(Axis("input_to_output_len_ratios"))
          * Len(Axis("max_concurrency_values"))

\* one of the three top-level sections is missing from the document
SectionMissing == exp_setup = <<>> \/ base_config = <<>> \/ sweep_params = <<>>

\* C19: when one of the three top-level sections is missing, the only step
\* the driver takes is the exit from its start, with no benchmark command
\* invoked, and the experiment directory, the CSV file, the failure log
\* and the result files are left as they were.
C19_MissingSectionAborts ==
    [][ SectionMissing =>
            /\ pc = "start" /\ pc' = "exit"
            /\ invoked = <<>> /\ invoked' = <<>>
            /\ run_trace' = <<>>
            /\ UNCHANGED <<fileVars, experiment_dir>> ]_vars

C19_Witness ==
    /\ pc = "exit"
    /\ sweep_params = <<>> /\ exp_setup # <<>> /\ base_config # <<>>
    /\ ~ experiment_dir
    /\ ~ csv.exists /\ ~ failed_runs_file.exists

\* the completed count of the result parsed by the last attempt (line 156)
Completed == DictGet(results[1], "completed", PyInt(0)).int

\* an attempt has just compared a parsed result with the prompt count
AttemptJudged ==
    /\ LastEvent \in {"accepted", "rejected"}
    /\ pc \in {"returned", "retry_sleep", "attempt", "exhausted"}

----------------------------------------------------------------------------
(* C21 - C28 *)

\* n is the larger of a and b
IsMaxOf(n, a, b) == n >= a /\ n >= b /\ n \in {a, b}

\* C21: when the base configuration has no numeric prompt count, a
\* generated configuration with rate "inf" and concurrency c has prompt
\* count max(512, 10 * c), and one with a numeric rate r and no concurrency
\* has prompt count max(512, 60 * r).
C21_DerivedPromptCount ==
    (pc = "generated" /\ ~ IsInt(Field(base_config, "num_prompts"))) =>
        \A k \in 1..Len(benchmark_configs) :
            LET rate == Field(benchmark_configs[k], "req_rate")
                curr == Field(benchmark_configs[k], "max_curr")
                n == Field(benchmark_configs[k], "num_prompts").int
            IN  /\ (rate = PyStr("inf") /\ IsInt(curr)) =>
                       IsMaxOf(n, 512, 10 * curr.int)
                /\ (IsInt(rate) /\ IsNone(curr)) =>
                       IsMaxOf(n, 512, 60 * rate.int)

C21_Witness ==
    /\ pc = "generated"
    /\ ~ IsInt(Field(base_config, "num_prompts"))
    /\ \E k \in 1..Len(benchmark_configs) :
          /\ Field(benchmark_configs[k], "req_rate") = PyStr("inf")
          /\ Field(benchmark_configs[k], "max_curr") = PyInt(64)
          /\ Field(benchmark_configs[k], "num_prompts") = PyInt(640)
    /\ \E k \in 1..Len(benchmark_configs) :
          /\ Field(benchmark_configs[k], "req_rate") = PyInt(5)
          /\ IsNone(Field(benchmark_configs[k], "max_curr"))
          /\ Field(benchmark_configs[k], "num_prompts") = PyInt(512)

\* the configuration and the base hold the same values under every key
\* that the sweep does not write
AgreesWithBase(cfg, base) ==
    {cfg[j] : j \in {h \in 1..Len(cfg) : ~ IsSweptPair(cfg[h])}}
        = {base[j] : j \in {h \in 1..Len(base) : ~ IsSweptPair(base[h])}}

\* C22: no step changes the base configuration, no step changes a
\* configuration once the list is generated, and every configuration of the
\* list agrees with the base on all keys other than request rate, input
\* length, output length, prompt count and concurrency.
C22_ConfigsNeverMutated ==
    [][ /\ base_config' = base_config
        /\ benchmark_configs # <<>> => benchmark_configs' = benchmark_configs
        /\ \A k \in 1..Len(benchmark_configs') :
              AgreesWithBase(benchmark_configs'[k], base_config) ]_vars

C22_Witness ==
    /\ pc = "done"
    /\ Len(benchmark_configs) = 2
    /\ HasKey(base_config, "num_prompts")
    /\ Len(SessionRows) = 1
    /\ \A k \in 1..2 :
          /\ AgreesWithBase(benchmark_configs[k], base_config)
          /\ ~ HasKey(benchmark_configs[k], "completed")

\* the last attempt popped a new file and json.load returned its value
AttemptParsed ==
    /\ popped_file # <<>>
    /\ \/ LastEvent \in {"accepted", "rejected"}
       \/ LastEvent = "raised" /\ raised = "AttributeError"

\* C23: after an attempt that found and parsed a new result file, the file
\* is no longer in the working directory; when the attempt was accepted the
\* archive holds a file of that name and the parsed result is the value
\* returned, when it was rejected the archive holds no file of that name.
C23_ResultFileLifecycle ==
    AttemptParsed =>
        /\ popped_file[1] \notin {f.name : f \in cwd}
        /\ LastEvent = "accepted" =>
              popped_file[1] \in archive /\ ret = results
        /\ LastEvent = "rejected" => popped_file[1] \notin archive

InCall == pc \in {"attempt", "retry_sleep", "exhausted", "returned", "crashed"}

\* C25: the file an attempt pops was written by the command of that very
\* attempt of that run; it is never a file that was in the working
\* directory when the attempt took its snapshot.
C25_NoStaleResult ==
    (InCall /\ popped_file # <<>>) =>
        /\ popped_file[1][1] = i
        /\ popped_file[1][2] = Len(AttemptEvents) - 1
        /\ popped_file[1] # StaleFile.name

C25_Witness ==
    /\ pc = "returned"
    /\ LastEvent = "accepted"
    /\ popped_file # <<>>
    /\ \E f \in cwd : f.name[1] = i /\ f.name[2] < popped_file[1][2]

\* the row holds the values of configuration cfg under cfg's keys
IsRowOf(row, cfg) ==
    \A h \in 1..Len(cfg) : row.values[Col(cfg[h][1])] = cfg[h][2]

\* the data rows of the session that belong to configuration k
RowsOf(k) ==
    Cardinality({j \in 1..Len(SessionRows) :
                    IsRowOf(SessionRows[j], benchmark_configs[k])})

\* the entries of the failure log that record configuration k
EntriesOf(k) ==
    Cardinality({j \in 1..Len(LogEntries(failed_runs_file)) :
                    LogEntries(failed_runs_file)[j]
                        = JsonDump(PyDict(benchmark_configs[k]))})

\* run k ended with an accepted result
RunAccepted(k) == \E name \in archive : name[1] = k

\* the rows of the session follow the order of the generated list
RowsInListOrder ==
    \A a, b \in 1..Len(SessionRows) :
        \A k, l \in 1..Len(benchmark_configs) :
            (/\ a < b
             /\ IsRowOf(SessionRows[a], benchmark_configs[k])
             /\ IsRowOf(SessionRows[b], benchmark_configs[l])) => k < l

\* C26 as stated: when the sweep has finished, every configuration has
\* exactly one row of the session or exactly one entry of the failure log,
\* never both and never neither, and the rows follow the list order.
C26_Original ==
    pc = "done" =>
        /\ \A k \in 1..Len(benchmark_configs) :
              \/ RowsOf(k) = 1 /\ EntriesOf(k) = 0
              \/ RowsOf(k) = 0 /\ EntriesOf(k) = 1
        /\ RowsInListOrder

\* C26 amended: when the sweep has finished, a configuration whose run was
\* accepted has exactly one row and no log entry; any other configuration
\* has no row and at most one log entry, and exactly one if the failure
\* log is usable; the rows follow the list order.
C26_AtMostOneSink ==
    pc = "done" =>
        /\ \A k \in 1..Len(benchmark_configs) :
              IF RunAccepted(k)
              THEN RowsOf(k) = 1 /\ EntriesOf(k) = 0
              ELSE /\ RowsOf(k) = 0
                   /\ EntriesOf(k) <= 1
                   /\ LogUsable(failed_runs_file) => EntriesOf(k) = 1
        /\ RowsInListOrder

C26_Witness ==
    /\ pc = "done"
    /\ Len(benchmark_configs) = 2
    /\ RowsOf(1) = 0 /\ EntriesOf(1) = 0
    /\ RowsOf(2) = 1 /\ EntriesOf(2) = 0
    /\ ~ LogUsable(failed_runs_file)

\* C27: the column list of the writer holds no column name twice.
C27_ColumnsDistinct ==
    writer # <<>> =>
        \A a, b \in 1..Len(writer[1]) :
            a # b => writer[1][a] # writer[1][b]

\* C28: when run_benchmark has returned, the working directory holds no
\* result file written during that call.
C28_WorkingDirectoryClean ==
    pc = "returned" => \A f \in cwd : f.name[1] # i

====
